---- MODULE Spec2Model ----
(***************************************************************************)
(* IntelliRoad: the backend's observation routes (validation, server-side  *)
(* hash verification, SQLite store), the AnchorRegistry contract on its    *)
(* ledger, and the frontend's anchorOnChain client.                        *)
(*                                                                         *)
(* Representation.  A text (JS string) is a sequence of one-character      *)
(* strings.  A JS number is an integer counting tenths (107 is 10.7).      *)
(* A JSON scalar of a request body is a record [t, n, s]: t is its kind,   *)
(* n its number, s its text.  A bytes32 digest of the registry is a small  *)
(* natural number, 0 being bytes32(0).                                     *)
(***************************************************************************)
EXTENDS Integers, Sequences, FiniteSets, TLC

\* ------------------------------------------------------------------ bounds
MaxRequests == 2
MaxId == 2
MaxTime == 1
MaxDigest == 1
MaxAddress == 1
MaxClient == 1
MaxTx == 2
MaxExec == 2
MaxBlockTime == 1
MaxEdits == 1
MaxSubs == 1

\* ------------------------------------------------------- program constants
DefaultLimit == 50
MaxLimit == 200

VARIABLES store, req, res, trace, nreq

VARIABLES isAnchored, events, txs, blockTime, status, hashHex, exec

serverVars == <<store, req, res, trace, nreq>>

chainVars == <<isAnchored, events, txs, blockTime, status, hashHex, exec>>

\* the page of the first client: its form fields, the digests its hash effect is still
\* computing, its hashHex text, its executions of submitObservation, its list of observations
VARIABLES form, jobs, hashText, sub, observations, edits

clientVars == <<form, jobs, hashText, sub, observations, edits>>

vars == <<store, req, res, trace, nreq, isAnchored, events, txs, blockTime, status, hashHex, exec,
          form, jobs, hashText, sub, observations, edits>>

\* ------------------------------------------------------------------- texts
Digits == <<"0", "1", "2", "3", "4", "5", "6", "7", "8", "9">>

HexDigits == <<"0", "1", "2", "3", "4", "5", "6", "7", "8", "9", "a", "b", "c", "d", "e", "f">>

UpperChars == <<"A", "B", "C", "D", "E", "F", "X">>

LowerChars == <<"a", "b", "c", "d", "e", "f", "x">>

\* the characters the model's texts are written in, in code-unit order
Alphabet == <<"\"", ",", "-", ".", "0", "1", "2", "3", "4", "5", "6", "7", "8", "9", ":", "A", "B", "C", "D", "E", "F", "X", "[", "\\", "]", "a", "b", "c", "d", "e", "f", "g", "h", "i", "l", "m", "n", "o", "p", "r", "s", "t", "u", "x", "y", "z", "{", "}">>

IndexOf(seq, c) == CHOOSE i \in 1..Len(seq) : seq[i] = c

InSeq(seq, c) == \E i \in 1..Len(seq) : seq[i] = c

Chars == {Alphabet[i] : i \in 1..Len(Alphabet)}

CharCode == [c \in Chars |-> IndexOf(Alphabet, c)]

\* String.prototype.toLowerCase
LowerChar == [c \in Chars |-> IF InSeq(UpperChars, c) THEN LowerChars[IndexOf(UpperChars, c)] ELSE c]

toLowerCase(s) == [i \in 1..Len(s) |-> LowerChar[s[i]]]

toUpperHex(s) == [i \in 1..Len(s) |-> IF i > 2 /\ InSeq(LowerChars, s[i]) THEN UpperChars[IndexOf(LowerChars, s[i])] ELSE s[i]]

RECURSIVE Join(_, _)
Join(parts, sep) ==
  IF parts = <<>> THEN <<>>
  ELSE IF Len(parts) = 1 THEN parts[1]
  ELSE parts[1] \o sep \o Join(Tail(parts), sep)

\* ------------------------------------------------------------ JSON.stringify
RECURSIVE NatToText(_)
NatToText(n) == IF n < 10 THEN <<Digits[n + 1]>> ELSE NatToText(n \div 10) \o <<Digits[(n % 10) + 1]>>

\* Number -> text, as JSON.stringify writes a finite number (n counts tenths)
NumberToText(n) ==
  LET a == IF n < 0 THEN 0 - n ELSE n
      sign == IF n < 0 THEN <<"-">> ELSE <<>>
      frac == IF a % 10 = 0 THEN <<>> ELSE <<".", Digits[(a % 10) + 1]>>
  IN sign \o NatToText(a \div 10) \o frac

RECURSIVE EscapeText(_)
EscapeText(s) ==
  IF s = <<>> THEN <<>>
  ELSE IF Head(s) = "\"" \/ Head(s) = "\\" THEN <<"\\", Head(s)>> \o EscapeText(Tail(s))
  ELSE <<Head(s)>> \o EscapeText(Tail(s))

QuoteText(s) == <<"\"">> \o EscapeText(s) \o <<"\"">>

Key(k) == QuoteText(k) \o <<":">>

StringifyNumArray(a) == <<"[">> \o Join([i \in 1..Len(a) |-> NumberToText(a[i].n)], <<",">>) \o <<"]">>

\* a feature object: keys in the order of the object, absent (undefined) keys omitted
StringifyFeature(f) ==
  LET members == <<Key(<<"t", "y", "p", "e">>) \o QuoteText(f.type.s)>>
        \o (IF f.confidence.t = "num"
            THEN <<Key(<<"c", "o", "n", "f", "i", "d", "e", "n", "c", "e">>) \o NumberToText(f.confidence.n)>>
            ELSE <<>>)
        \o (IF f.bbox.t = "arr"
            THEN <<Key(<<"b", "b", "o", "x">>) \o StringifyNumArray(f.bbox.a)>>
            ELSE <<>>)
  IN <<"{">> \o Join(members, <<",">>) \o <<"}">>

\* a stringify that writes two features in the order of their types, whatever their order in fs
StringifyFeatures_Sorted(fs) ==
  LET swap == /\ Len(fs) = 2
              /\ fs[1].type.s # <<>> /\ fs[2].type.s # <<>>
              /\ CharCode[fs[1].type.s[1]] > CharCode[fs[2].type.s[1]]
      gs == IF swap THEN <<fs[2], fs[1]>> ELSE fs
  IN <<"[">> \o Join([i \in 1..Len(gs) |-> StringifyFeature(gs[i])], <<",">>) \o <<"]">>

StringifyFeatures(fs) == <<"[">> \o Join([i \in 1..Len(fs) |-> StringifyFeature(fs[i])], <<",">>) \o <<"]">>

\* JSON.stringify({ lat, lng, timestamp, features }) given the text of features
CanonicalText(lat, lng, timestamp, featuresText) ==
  <<"{">> \o Key(<<"l", "a", "t">>) \o NumberToText(lat) \o <<",">>
    \o Key(<<"l", "n", "g">>) \o NumberToText(lng) \o <<",">>
    \o Key(<<"t", "i", "m", "e", "s", "t", "a", "m", "p">>) \o QuoteText(timestamp) \o <<",">>
    \o Key(<<"f", "e", "a", "t", "u", "r", "e", "s">>) \o featuresText \o <<"}">>

\* a canonical form that writes lng before lat
Canonical_LngFirst(lat, lng, timestamp, features) ==
  <<"{">> \o Key(<<"l", "n", "g">>) \o NumberToText(lng) \o <<",">>
    \o Key(<<"l", "a", "t">>) \o NumberToText(lat) \o <<",">>
    \o Key(<<"t", "i", "m", "e", "s", "t", "a", "m", "p">>) \o QuoteText(timestamp) \o <<",">>
    \o Key(<<"f", "e", "a", "t", "u", "r", "e", "s">>) \o StringifyFeatures(features) \o <<"}">>

Canonical(lat, lng, timestamp, features) == CanonicalText(lat, lng, timestamp, StringifyFeatures(features))

\* -------------------------------------------------------------------- hash
\* SHA-256 is modelled by a deterministic 16-bit polynomial checksum of the
\* text, spread over 64 hex digits; it keeps the format ('0x' and 64
\* lower-case hex digits) and the determinism of the real digest.
\* the checksum of s[lo..hi] continued from h (the range is halved to keep the evaluation shallow)
RECURSIVE Checksum(_, _, _, _)
Checksum(s, lo, hi, h) ==
  IF lo > hi THEN h
  ELSE IF lo = hi THEN (h * 31 + CharCode[s[lo]]) % 65536
  ELSE LET mid == (lo + hi) \div 2
           left == Checksum(s, lo, mid, h)
       IN IF left >= 0 THEN Checksum(s, mid + 1, hi, left) ELSE 0

DigestNibble(h, i) == (((h \div (16 ^ ((i - 1) % 4))) % 16) + ((i - 1) \div 4)) % 16

sha256Hex(text) ==
  LET h == Checksum(text, 1, Len(text), 7)
  IN <<"0", "x">> \o [i \in 1..64 |-> HexDigits[DigestNibble(h, i) + 1]]

\* ------------------------------------------------------- request body values
Absent == [t |-> "absent", n |-> 0, s |-> <<>>]

Null == [t |-> "null", n |-> 0, s |-> <<>>]

Num(n) == [t |-> "num", n |-> n, s |-> <<>>]

Str(s) == [t |-> "str", n |-> 0, s |-> s]

NoArr == [t |-> "absent", a |-> <<>>]

Arr(a) == [t |-> "arr", a |-> a]

\* type Feature = { type; confidence?; bbox? }
Feature(type, confidence, bbox) == [type |-> type, confidence |-> confidence, bbox |-> bbox]

\* ---------------------------------------------------------------- JSON.parse
RECURSIVE ScanString(_, _, _)
ScanString(s, j, acc) ==
  IF s[j] = "\"" THEN [v |-> acc, i |-> j + 1]
  ELSE IF s[j] = "\\" THEN ScanString(s, j + 2, Append(acc, s[j + 1]))
  ELSE ScanString(s, j + 1, Append(acc, s[j]))

RECURSIVE ScanDigits(_, _, _)
ScanDigits(s, j, acc) ==
  IF j <= Len(s) /\ InSeq(Digits, s[j])
  THEN ScanDigits(s, j + 1, acc * 10 + (IndexOf(Digits, s[j]) - 1))
  ELSE [v |-> acc, i |-> j]

\* a number parser that drops the fraction digits
ParseNumber_Truncating(s, i) ==
  LET neg == s[i] = "-"
      ip == ScanDigits(s, IF neg THEN i + 1 ELSE i, 0)
      hasFrac == ip.i <= Len(s) /\ s[ip.i] = "."
      mag == ip.v * 10
  IN [v |-> IF neg THEN 0 - mag ELSE mag, i |-> IF hasFrac THEN ip.i + 2 ELSE ip.i]

\* a JSON number starting at s[i]; the value counts tenths
ParseNumber(s, i) ==
  LET neg == s[i] = "-"
      ip == ScanDigits(s, IF neg THEN i + 1 ELSE i, 0)
      hasFrac == ip.i <= Len(s) /\ s[ip.i] = "."
      mag == IF hasFrac THEN ip.v * 10 + (IndexOf(Digits, s[ip.i + 1]) - 1) ELSE ip.v * 10
  IN [v |-> IF neg THEN 0 - mag ELSE mag, i |-> IF hasFrac THEN ip.i + 2 ELSE ip.i]

RECURSIVE ScanNumbers(_, _, _)
ScanNumbers(s, j, acc) ==
  IF s[j] = "]" THEN [v |-> acc, i |-> j + 1]
  ELSE LET k == IF s[j] = "," THEN j + 1 ELSE j
           r == ParseNumber(s, k)
       IN ScanNumbers(s, r.i, Append(acc, Num(r.v)))

RECURSIVE ScanMembers(_, _, _)
ScanMembers(s, j, f) ==
  IF s[j] = "}" THEN [v |-> f, i |-> j + 1]
  ELSE LET k == IF s[j] = "," THEN j + 1 ELSE j
           key == ScanString(s, k + 1, <<>>)
           vi == key.i + 1
           str == ScanString(s, vi + 1, <<>>)
           num == ParseNumber(s, vi)
           arr == ScanNumbers(s, vi + 1, <<>>)
           scalar == IF s[vi] = "\"" THEN [v |-> Str(str.v), i |-> str.i]
                     ELSE IF s[vi] = "n" THEN [v |-> Null, i |-> vi + 4]
                     ELSE [v |-> Num(num.v), i |-> num.i]
       IN IF key.v = <<"t", "y", "p", "e">> THEN ScanMembers(s, scalar.i, [f EXCEPT !.type = scalar.v])
          ELSE IF key.v = <<"c", "o", "n", "f", "i", "d", "e", "n", "c", "e">>
          THEN ScanMembers(s, scalar.i, [f EXCEPT !.confidence = scalar.v])
          ELSE ScanMembers(s, arr.i, [f EXCEPT !.bbox = Arr(arr.v)])

RECURSIVE ScanObjects(_, _, _)
ScanObjects(s, j, acc) ==
  IF s[j] = "]" THEN acc
  ELSE LET k == IF s[j] = "," THEN j + 1 ELSE j
           obj == ScanMembers(s, k + 1, Feature(Absent, Absent, NoArr))
       IN ScanObjects(s, obj.i, Append(acc, obj.v))

\* JSON.parse(r.features_json): the text of an array of feature objects
JSONParseFeatures(s) == ScanObjects(s, 2, <<>>)

\* ---------------------------------------------------------------- zod schemas
\* FeatureSchema without .max(1) on confidence
FeatureSchema_NoMax(f) ==
  /\ f.type.t = "str"
  /\ \/ f.confidence.t = "absent"
     \/ f.confidence.t = "num" /\ f.confidence.n >= 0
  /\ \/ f.bbox.t = "absent"
     \/ f.bbox.t = "arr" /\ Len(f.bbox.a) = 4 /\ \A i \in 1..Len(f.bbox.a) : f.bbox.a[i].t = "num"

FeatureSchema(f) ==
  /\ f.type.t = "str"
  /\ \/ f.confidence.t = "absent"
     \/ f.confidence.t = "num" /\ f.confidence.n >= 0 /\ f.confidence.n <= 10
  /\ \/ f.bbox.t = "absent"
     \/ f.bbox.t = "arr" /\ Len(f.bbox.a) = 4 /\ \A i \in 1..Len(f.bbox.a) : f.bbox.a[i].t = "num"

HexChars == {HexDigits[i] : i \in 1..Len(HexDigits)} \cup {"A", "B", "C", "D", "E", "F"}

\* /^0x[0-9a-fA-F]{64}$/
HashHexPattern(s) == Len(s) = 66 /\ s[1] = "0" /\ s[2] = "x" /\ \A i \in 3..Len(s) : s[i] \in HexChars

\* ObservationSchema.safeParse(req.body); fieldErrors is error.flatten().fieldErrors
ObservationSchema(body) ==
  LET fieldErrors ==
        (IF body.lat.t = "num" THEN {} ELSE {"lat"})
        \cup (IF body.lng.t = "num" THEN {} ELSE {"lng"})
        \cup (IF body.timestamp.t = "str" THEN {} ELSE {"timestamp"})
        \cup (IF \/ body.features.t = "absent"
                 \/ body.features.t = "arr" /\ \A i \in 1..Len(body.features.a) : FeatureSchema(body.features.a[i])
              THEN {} ELSE {"features"})
        \cup (IF body.hashHex.t = "str" /\ HashHexPattern(body.hashHex.s) THEN {} ELSE {"hashHex"})
  IN [success |-> fieldErrors = {},
      fieldErrors |-> fieldErrors,
      data |-> [lat |-> body.lat.n, lng |-> body.lng.n, timestamp |-> body.timestamp.s,
                features |-> IF body.features.t = "arr" THEN body.features.a ELSE <<>>,
                hashHex |-> body.hashHex.s]]

\* ------------------------------------------------------------ HTTP responses
NoError == [t |-> "none", msg |-> "", fields |-> {}]

NoRes == [op |-> "none", status |-> 0, ok |-> FALSE, error |-> NoError, id |-> 0, createdAt |-> 0,
          hashHex |-> <<>>, observations |-> <<>>]

\* res.status(400).json({ ok: false, error: parsed.error.flatten() })
ValidationRes(fieldErrors) ==
  [NoRes EXCEPT !.op = "post", !.status = 400, !.error = [t |-> "object", msg |-> "", fields |-> fieldErrors]]

\* res.status(400).json({ ok: false, error: 'Hash mismatch (...)' })
MismatchRes ==
  [NoRes EXCEPT !.op = "post", !.status = 400,
                !.error = [t |-> "string", msg |-> "Hash mismatch (server recomputed a different value).", fields |-> {}]]

\* an exception thrown by the handler: Express answers 500 with its error page
ThrownRes(op) == [NoRes EXCEPT !.op = op, !.status = 500, !.error = [t |-> "html", msg |-> "", fields |-> {}]]

\* ------------------------------------------------- POST /api/observations
\* the handler without the comparison of expected and hashHex
VerifyObservation_NoHashCheck(body) ==
  LET parsed == ObservationSchema(body)
  IN IF ~parsed.success
     THEN [rejected |-> TRUE, res |-> ValidationRes(parsed.fieldErrors), trace |-> <<"safeParse">>,
           data |-> parsed.data]
     ELSE [rejected |-> FALSE, res |-> NoRes, trace |-> <<"safeParse", "stringify", "sha256Hex">>,
           data |-> parsed.data]

\* the first half of the handler: safeParse, then the server-side hash check
VerifyObservation(body) ==
  LET parsed == ObservationSchema(body)
      d == parsed.data
      canonical == Canonical(d.lat, d.lng, d.timestamp, d.features)
      expected == sha256Hex(canonical)
  IN IF ~parsed.success
     THEN [rejected |-> TRUE, res |-> ValidationRes(parsed.fieldErrors), trace |-> <<"safeParse">>, data |-> d]
     ELSE IF toLowerCase(expected) # toLowerCase(d.hashHex)
     THEN [rejected |-> TRUE, res |-> MismatchRes, trace |-> <<"safeParse", "stringify", "sha256Hex">>, data |-> d]
     ELSE [rejected |-> FALSE, res |-> NoRes, trace |-> <<"safeParse", "stringify", "sha256Hex">>, data |-> d]

\* the INSERT with lat and lng bound to each other's column
InsertObservation_SwappedColumns(d, id, createdAt, st) ==
  LET row == [id |-> id, created_at |-> createdAt, lat |-> d.lng, lng |-> d.lat, timestamp |-> d.timestamp,
              features_json |-> StringifyFeatures(d.features), hash_hex |-> d.hashHex]
  IN IF \E i \in 1..Len(st) : st[i].id = id
     THEN [res |-> ThrownRes("post"), store |-> st, trace |-> <<"randomUUID", "insert">>]
     ELSE [res |-> [NoRes EXCEPT !.op = "post", !.status = 200, !.ok = TRUE, !.id = id,
                                 !.createdAt = createdAt, !.hashHex = d.hashHex],
           store |-> Append(st, row), trace |-> <<"randomUUID", "insert">>]

\* INSERT OR REPLACE: a row with the id of an existing row takes its place
InsertObservation_Replace(d, id, createdAt, st) ==
  LET row == [id |-> id, created_at |-> createdAt, lat |-> d.lat, lng |-> d.lng, timestamp |-> d.timestamp,
              features_json |-> StringifyFeatures(d.features), hash_hex |-> d.hashHex]
      answer == [NoRes EXCEPT !.op = "post", !.status = 200, !.ok = TRUE, !.id = id,
                              !.createdAt = createdAt, !.hashHex = d.hashHex]
  IN IF \E i \in 1..Len(st) : st[i].id = id
     THEN [res |-> answer, store |-> [i \in 1..Len(st) |-> IF st[i].id = id THEN row ELSE st[i]],
           trace |-> <<"randomUUID", "insert">>]
     ELSE [res |-> answer, store |-> Append(st, row), trace |-> <<"randomUUID", "insert">>]

\* the second half: the INSERT of the verified fields d under a new id, and the answer
InsertObservation(d, id, createdAt, st) ==
  LET row == [id |-> id, created_at |-> createdAt, lat |-> d.lat, lng |-> d.lng, timestamp |-> d.timestamp,
              features_json |-> StringifyFeatures(d.features), hash_hex |-> d.hashHex]
  IN IF \E i \in 1..Len(st) : st[i].id = id
     THEN \* id TEXT PRIMARY KEY: the INSERT throws
          [res |-> ThrownRes("post"), store |-> st, trace |-> <<"randomUUID", "insert">>]
     ELSE [res |-> [NoRes EXCEPT !.op = "post", !.status = 200, !.ok = TRUE, !.id = id,
                                 !.createdAt = createdAt, !.hashHex = d.hashHex],
           store |-> Append(st, row), trace |-> <<"randomUUID", "insert">>]

\* -------------------------------------------------- GET /api/observations
Absentq == [t |-> "absent", s |-> <<>>]

Query(s) == [t |-> "str", s |-> s]

NaN == [nan |-> TRUE, n |-> 0]

Number(n) == [nan |-> FALSE, n |-> n]

RECURSIVE AllDigits(_, _)
AllDigits(s, i) == i > Len(s) \/ (InSeq(Digits, s[i]) /\ AllDigits(s, i + 1))

\* Number(x) of a string written as an optional sign and decimal digits, or not a number at all
StringToNumber(s) ==
  LET signed == Len(s) > 0 /\ (s[1] = "-" \/ s[1] = "+")
      first == IF signed THEN 2 ELSE 1
      mag == ScanDigits(s, first, 0).v
  IN IF s = <<>> THEN Number(0)
     ELSE IF first > Len(s) \/ ~AllDigits(s, first) THEN NaN
     ELSE Number(IF s[1] = "-" THEN 0 - mag ELSE mag)

\* Math.min(Number(req.query.limit || 50), 200)
EffectiveLimit(q) ==
  LET x == IF q.t = "absent" \/ q.s = <<>> THEN Number(DefaultLimit) ELSE StringToNumber(q.s)
  IN IF x.nan THEN NaN ELSE Number(IF x.n < MaxLimit THEN x.n ELSE MaxLimit)

PermsOf(G) == {p \in [1..Cardinality(G) -> G] : \A i, j \in 1..Cardinality(G) : i # j => p[i] # p[j]}

\* ORDER BY created_at DESC over the rows S of st whose created_at lies in lo..hi:
\* the orders the query may produce (rows with equal created_at come in any order;
\* the range is halved to keep the evaluation shallow)
RECURSIVE SortedRange(_, _, _, _)
SortedRange(st, S, lo, hi) ==
  IF S = {} THEN {<<>>}
  ELSE IF lo = hi THEN PermsOf(S)
  ELSE LET mid == (lo + hi) \div 2
           newer == {i \in S : st[i].created_at > mid}
       IN {a \o b : a \in SortedRange(st, newer, mid + 1, hi), b \in SortedRange(st, S \ newer, lo, mid)}

\* the least and the greatest created_at of st[lo..hi]
RECURSIVE OldestIn(_, _, _)
OldestIn(st, lo, hi) ==
  IF lo = hi THEN st[lo].created_at
  ELSE LET mid == (lo + hi) \div 2
           a == OldestIn(st, lo, mid)
           b == OldestIn(st, mid + 1, hi)
       IN IF a <= b THEN a ELSE b

RECURSIVE NewestIn(_, _, _)
NewestIn(st, lo, hi) ==
  IF lo = hi THEN st[lo].created_at
  ELSE LET mid == (lo + hi) \div 2
           a == NewestIn(st, lo, mid)
           b == NewestIn(st, mid + 1, hi)
       IN IF a >= b THEN a ELSE b

SortedOrders(st) ==
  IF st = <<>> THEN {<<>>}
  ELSE SortedRange(st, 1..Len(st), OldestIn(st, 1, Len(st)), NewestIn(st, 1, Len(st)))

\* LIMIT that keeps the end of the ordered rows instead of their beginning
LimitRows_Oldest(order, limit) ==
  IF limit.n < 0 \/ limit.n >= Len(order) THEN order
  ELSE SubSeq(order, Len(order) - limit.n + 1, Len(order))

\* LIMIT ?: a negative limit is no limit; a NaN is bound as NULL, which LIMIT refuses
LimitRows(order, limit) ==
  IF limit.n < 0 \/ limit.n >= Len(order) THEN order ELSE SubSeq(order, 1, limit.n)

OutRow(r) ==
  [id |-> r.id, createdAt |-> r.created_at, lat |-> r.lat, lng |-> r.lng, timestamp |-> r.timestamp,
   features |-> JSONParseFeatures(r.features_json), hashHex |-> r.hash_hex]

\* the responses the GET handler may give
GetObservations(q, st) ==
  LET limit == EffectiveLimit(q)
  IN IF limit.nan THEN {ThrownRes("get")}
     ELSE {LET rows == LimitRows(order, limit)
           IN [NoRes EXCEPT !.op = "get", !.status = 200, !.ok = TRUE,
                            !.observations = [k \in 1..Len(rows) |-> OutRow(st[rows[k]])]] :
             order \in SortedOrders(st)}

\* ------------------------------------------------------------------ inputs
Ids == 1..MaxId

Times == 0..MaxTime

Body(lat, lng, timestamp, features, hex) ==
  [lat |-> lat, lng |-> lng, timestamp |-> timestamp, features |-> features, hashHex |-> hex]

NoBody == Body(Absent, Absent, Absent, NoArr, Absent)

\* the digest a client computes over its fields: sha256Hex(canonical)
ClientDigest(v) == sha256Hex(Canonical(v.lat, v.lng, v.timestamp, v.features))

Obs1 == [lat |-> 107, lng |-> 1066, timestamp |-> <<"a">>,
         features |-> <<Feature(Str(<<"p">>), Num(8), NoArr)>>]

Obs2 == [lat |-> 0 - 5, lng |-> 0, timestamp |-> <<"a", "\"", "z">>,
         features |-> <<Feature(Str(<<"s">>), Absent, Arr(<<Num(0), Num(0), Num(10), Num(15)>>)),
                        Feature(Str(<<"p">>), Num(10), NoArr)>>]

Obs3 == [lat |-> 0, lng |-> 0 - 1800, timestamp |-> <<>>, features |-> <<>>]

ValidObs == {Obs1, Obs2, Obs3}

BodyOf(v, hex) == Body(Num(v.lat), Num(v.lng), Str(v.timestamp), Arr(v.features), Str(hex))

\* bodies that carry the digest of their own fields, in lower or upper case hex
GoodBodies ==
  {BodyOf(v, ClientDigest(v)) : v \in ValidObs}
  \cup {BodyOf(v, toUpperHex(ClientDigest(v))) : v \in {Obs1, Obs2}}
  \cup {[BodyOf(Obs3, ClientDigest(Obs3)) EXCEPT !.features = NoArr]}

\* shape-valid bodies that carry the digest of other fields
TamperedBodies ==
  {BodyOf(Obs1, ClientDigest(Obs2)), BodyOf(Obs2, toUpperHex(ClientDigest(Obs1))),
   [BodyOf(Obs1, ClientDigest(Obs1)) EXCEPT !.features = Arr(<<Feature(Str(<<"p">>), Num(9), NoArr)>>)],
   [BodyOf(Obs2, ClientDigest(Obs2)) EXCEPT !.features = Arr(<<Obs2.features[2], Obs2.features[1]>>)]}

Good1 == BodyOf(Obs1, ClientDigest(Obs1))

\* shape-invalid bodies
InvalidBodies ==
  {[Good1 EXCEPT !.lat = Absent],
   [Good1 EXCEPT !.lng = Str(<<"1">>)],
   [Good1 EXCEPT !.timestamp = Absent],
   [Good1 EXCEPT !.timestamp = Num(10)],
   [Good1 EXCEPT !.hashHex = Absent],
   [Good1 EXCEPT !.hashHex = Str(SubSeq(ClientDigest(Obs1), 1, 65))],
   [Good1 EXCEPT !.hashHex = Str(ClientDigest(Obs1) \o <<"0">>)],
   [Good1 EXCEPT !.hashHex = Str(SubSeq(ClientDigest(Obs1), 3, 66))],
   [Good1 EXCEPT !.hashHex = Str(<<"0", "X">> \o SubSeq(ClientDigest(Obs1), 3, 66))],
   [Good1 EXCEPT !.hashHex = Str(SubSeq(ClientDigest(Obs1), 1, 65) \o <<"g">>)],
   [Good1 EXCEPT !.features = Arr(<<Feature(Str(<<"p">>), Num(11), NoArr)>>)],
   [Good1 EXCEPT !.features = Arr(<<Feature(Str(<<"p">>), Num(0 - 1), NoArr)>>)],
   [Good1 EXCEPT !.features = Arr(<<Feature(Str(<<"p">>), Null, NoArr)>>)],
   [Good1 EXCEPT !.features = Arr(<<Feature(Absent, Num(8), NoArr)>>)],
   [Good1 EXCEPT !.features = Arr(<<Feature(Str(<<"p">>), Num(8), Arr(<<Num(0), Num(0), Num(10)>>))>>)],
   [Good1 EXCEPT !.features = [t |-> "null", a |-> <<>>]],
   [BodyOf(Obs1, ClientDigest(Obs2)) EXCEPT !.lat = Null]}

Bodies == GoodBodies \cup TamperedBodies \cup InvalidBodies

LimitParams ==
  {Absentq, Query(<<>>), Query(<<"0">>), Query(<<"1">>), Query(<<"2">>), Query(<<"2", "5">>), Query(<<"2", "0", "0">>),
   Query(<<"1", "0", "0", "0">>), Query(<<"-", "1">>), Query(<<"a">>)}

\* ----------------------------------------------------------------- backend
NoReq == [op |-> "none", body |-> NoBody, limit |-> Absentq]

\* VerifyObservation is a pure function of the body: its results on the bodies sent, computed once
Verified == [body \in Bodies |-> VerifyObservation(body)]

Post ==
  /\ nreq < MaxRequests
  /\ \E body \in Bodies :
       LET v == Verified[body]
       IN /\ req' = [op |-> "post", body |-> body, limit |-> Absentq]
          /\ IF v.rejected
             THEN /\ res' = v.res
                  /\ trace' = v.trace
                  /\ store' = store
             ELSE \E id \in Ids, createdAt \in Times :
                    LET r == InsertObservation(v.data, id, createdAt, store)
                    IN /\ res' = r.res
                       /\ trace' = v.trace \o r.trace
                       /\ store' = r.store
  /\ nreq' = nreq + 1
  /\ UNCHANGED <<chainVars, clientVars>>

Get ==
  /\ nreq < MaxRequests
  /\ \E q \in LimitParams :
       /\ res' \in GetObservations(q, store)
       /\ req' = [op |-> "get", body |-> NoBody, limit |-> q]
  /\ trace' = <<"select">>
  /\ nreq' = nreq + 1
  /\ UNCHANGED <<store, chainVars, clientVars>>

ServerNext == Post \/ Get

\* a data.sqlite that earlier runs of the backend have filled with n verified observations
Preload(n) ==
  [i \in 1..n |-> [id |-> MaxId + i, created_at |-> i - (n + 1), lat |-> Obs3.lat, lng |-> Obs3.lng,
                   timestamp |-> Obs3.timestamp, features_json |-> StringifyFeatures(Obs3.features),
                   hash_hex |-> ClientDigest(Obs3)]]

\* a data.sqlite that holds three verified observations, two of them created in the same instant
Seeded ==
  [i \in 1..3 |-> [id |-> MaxId + i, created_at |-> IF i = 1 THEN 0 - 1 ELSE 0,
                   lat |-> IF i = 2 THEN Obs1.lat ELSE Obs3.lat, lng |-> IF i = 2 THEN Obs1.lng ELSE Obs3.lng,
                   timestamp |-> IF i = 2 THEN Obs1.timestamp ELSE Obs3.timestamp,
                   features_json |-> StringifyFeatures(IF i = 2 THEN Obs1.features ELSE Obs3.features),
                   hash_hex |-> ClientDigest(IF i = 2 THEN Obs1 ELSE Obs3)]]

\* ------------------------------------------------- AnchorRegistry contract
Digests == 0..MaxDigest

Addresses == 1..MaxAddress

\* anchor without require(!isAnchored[hash], "ALREADY_ANCHORED")
anchor_NoAlreadyCheck(anchored, emitted, hash, sender, timestamp) ==
  IF hash = 0
  THEN [ok |-> FALSE, reason |-> "EMPTY_HASH", isAnchored |-> anchored, events |-> emitted]
  ELSE [ok |-> TRUE, reason |-> "",
        isAnchored |-> [anchored EXCEPT ![hash] = TRUE],
        events |-> Append(emitted, [hash |-> hash, submitter |-> sender, timestamp |-> timestamp])]

\* anchor that flips the flag of an anchored digest instead of refusing it
anchor_Toggle(anchored, emitted, hash, sender, timestamp) ==
  IF hash = 0
  THEN [ok |-> FALSE, reason |-> "EMPTY_HASH", isAnchored |-> anchored, events |-> emitted]
  ELSE IF anchored[hash]
  THEN [ok |-> FALSE, reason |-> "ALREADY_ANCHORED", isAnchored |-> [anchored EXCEPT ![hash] = FALSE],
        events |-> emitted]
  ELSE [ok |-> TRUE, reason |-> "",
        isAnchored |-> [anchored EXCEPT ![hash] = TRUE],
        events |-> Append(emitted, [hash |-> hash, submitter |-> sender, timestamp |-> timestamp])]

\* anchor without require(hash != bytes32(0), "EMPTY_HASH")
anchor_NoEmptyCheck(anchored, emitted, hash, sender, timestamp) ==
  IF anchored[hash]
  THEN [ok |-> FALSE, reason |-> "ALREADY_ANCHORED", isAnchored |-> anchored, events |-> emitted]
  ELSE [ok |-> TRUE, reason |-> "",
        isAnchored |-> [anchored EXCEPT ![hash] = TRUE],
        events |-> Append(emitted, [hash |-> hash, submitter |-> sender, timestamp |-> timestamp])]

\* anchor without emit Anchored(hash, msg.sender, block.timestamp)
anchor_NoEmit(anchored, emitted, hash, sender, timestamp) ==
  IF hash = 0
  THEN [ok |-> FALSE, reason |-> "EMPTY_HASH", isAnchored |-> anchored, events |-> emitted]
  ELSE IF anchored[hash]
  THEN [ok |-> FALSE, reason |-> "ALREADY_ANCHORED", isAnchored |-> anchored, events |-> emitted]
  ELSE [ok |-> TRUE, reason |-> "", isAnchored |-> [anchored EXCEPT ![hash] = TRUE], events |-> emitted]

\* function anchor(bytes32 hash) external, called by sender in a block stamped timestamp,
\* on the registry state (anchored, emitted); a failed require reverts every effect
anchor(anchored, emitted, hash, sender, timestamp) ==
  IF hash = 0
  THEN [ok |-> FALSE, reason |-> "EMPTY_HASH", isAnchored |-> anchored, events |-> emitted]
  ELSE IF anchored[hash]
  THEN [ok |-> FALSE, reason |-> "ALREADY_ANCHORED", isAnchored |-> anchored, events |-> emitted]
  ELSE [ok |-> TRUE, reason |-> "",
        isAnchored |-> [anchored EXCEPT ![hash] = TRUE],
        events |-> Append(emitted, [hash |-> hash, submitter |-> sender, timestamp |-> timestamp])]

\* ------------------------------------------------------------------ ledger
\* a transaction that calls anchor(hash), signed by from; by is the execution of
\* anchorOnChain that sent it, 0 when it was sent outside the frontend
Tx(from, hash, by) == [from |-> from, hash |-> hash, by |-> by, status |-> "pending", reason |-> ""]

\* any account sends an anchor transaction of its own, outside the frontend
SendDirect ==
  /\ Len(txs) < MaxTx
  /\ \E a \in Addresses, d \in Digests : txs' = Append(txs, Tx(a, d, 0))
  /\ UNCHANGED <<isAnchored, events, blockTime, status, hashHex, exec, serverVars, clientVars>>

\* the ledger includes a pending transaction in a block and executes it
Mine ==
  \E i \in 1..Len(txs), t \in blockTime..MaxBlockTime :
    /\ txs[i].status = "pending"
    /\ LET r == anchor(isAnchored, events, txs[i].hash, txs[i].from, t)
       IN /\ isAnchored' = r.isAnchored
          /\ events' = r.events
          /\ txs' = [txs EXCEPT ![i].status = IF r.ok THEN "success" ELSE "reverted", ![i].reason = r.reason]
    /\ blockTime' = t
    /\ UNCHANGED <<status, hashHex, exec, serverVars, clientVars>>

\* ------------------------------------------------------ frontend: anchorOnChain
Clients == 1..MaxClient

Execs == 1..MaxExec

\* the hashHex state before the first digest arrives: useState('')
NoHash == 0 - 1

\* what setStatus shows: the literal text, the interpolated error message and revert reason,
\* and the transaction of `Tx sent: ${tx.hash}`
Status(text, msg, reason, tx) == [text |-> text, msg |-> msg, reason |-> reason, tx |-> tx]

NoStatus == Status("", "", "", 0)

\* `Anchor failed: ${e?.shortMessage || e?.message || String(e)}`
AnchorFailed(msg, reason) == Status("Anchor failed", msg, reason, 0)

NoExec == [pc |-> "none", client |-> 0, arg |-> NoHash, tx |-> 0, log |-> <<>>]

\* setStatus(st) by execution e; log is the sequence of statuses the execution has set
SetStatus(e, st, pc) ==
  /\ status' = [status EXCEPT ![exec[e].client] = st]
  /\ exec' = [exec EXCEPT ![e].pc = pc, ![e].log = Append(@, st)]

\* sha256Hex(canonical).then(setHashHex).catch(() => setHashHex(''))
HashEffect ==
  /\ \E c \in Clients, d \in (1..MaxDigest) \cup {NoHash} :
       /\ hashHex[c] # d
       /\ hashHex' = [hashHex EXCEPT ![c] = d]
  /\ UNCHANGED <<isAnchored, events, txs, blockTime, status, exec, serverVars, clientVars>>

\* a click on 'Anchor on-chain': up to setStatus('Requesting wallet connection...')
AnchorStart ==
  /\ \E e \in Execs, c \in Clients, env \in {"ok", "no contract", "no wallet"} :
       /\ exec[e].pc = "none"
       /\ \A f \in Execs : f < e => exec[f].pc # "none"
       /\ LET started == [NoExec EXCEPT !.client = c, !.arg = hashHex[c]]
              st == IF env = "no contract" THEN Status("No contract address set", "", "", 0)
                    ELSE IF env = "no wallet" THEN Status("MetaMask not found", "", "", 0)
                    ELSE Status("Requesting wallet connection...", "", "", 0)
          IN /\ status' = [status EXCEPT ![c] = st]
             /\ exec' = [exec EXCEPT ![e] = [started EXCEPT !.pc = IF env = "ok" THEN "getSigner" ELSE "done",
                                                            !.log = <<st>>]]
  /\ UNCHANGED <<isAnchored, events, txs, blockTime, hashHex, serverVars, clientVars>>

\* await provider.getSigner(), then setStatus('Sending transaction...'); the wallet may refuse
GetSigner ==
  /\ \E e \in Execs :
       /\ exec[e].pc = "getSigner"
       /\ \/ SetStatus(e, Status("Sending transaction...", "", "", 0), "send")
          \/ SetStatus(e, AnchorFailed("user rejected action", ""), "done")
  /\ UNCHANGED <<isAnchored, events, txs, blockTime, hashHex, serverVars, clientVars>>

\* await contract.anchor(hashHex): the argument is encoded, the call is simulated on the
\* current ledger state to estimate its gas, and the signed transaction is sent
CallAnchor ==
  \E e \in Execs :
    /\ exec[e].pc = "send"
    /\ LET sim == anchor(isAnchored, events, exec[e].arg, exec[e].client, blockTime)
       IN \/ /\ exec[e].arg = NoHash
             /\ SetStatus(e, AnchorFailed("invalid BytesLike value", ""), "done")
             /\ UNCHANGED txs
          \/ /\ exec[e].arg # NoHash /\ ~sim.ok
             /\ SetStatus(e, AnchorFailed("execution reverted", sim.reason), "done")
             /\ UNCHANGED txs
          \/ /\ exec[e].arg # NoHash /\ sim.ok
             /\ SetStatus(e, AnchorFailed("user rejected action", ""), "done")
             /\ UNCHANGED txs
          \/ /\ exec[e].arg # NoHash /\ sim.ok
             /\ Len(txs) < MaxTx
             /\ txs' = Append(txs, Tx(exec[e].client, exec[e].arg, e))
             /\ status' = [status EXCEPT ![exec[e].client] =
                             Status("Tx sent. Waiting for confirmation...", "", "", Len(txs) + 1)]
             /\ exec' = [exec EXCEPT ![e].pc = "wait", ![e].tx = Len(txs) + 1,
                                     ![e].log = Append(@, Status("Tx sent. Waiting for confirmation...", "", "",
                                                                 Len(txs) + 1))]
    /\ UNCHANGED <<isAnchored, events, blockTime, hashHex, serverVars, clientVars>>

\* anchorOnChain that reports success as soon as the transaction is in a block
WaitDone_NoReceiptCheck ==
  /\ \E e \in Execs :
       /\ exec[e].pc = "wait"
       /\ txs[exec[e].tx].status # "pending"
       /\ SetStatus(e, Status("Anchored on-chain", "", "", 0), "done")
  /\ UNCHANGED <<isAnchored, events, txs, blockTime, hashHex, serverVars, clientVars>>

\* await tx.wait() returns once the transaction is in a block; it throws when the
\* receipt says the transaction reverted (the receipt carries no revert reason)
WaitDone ==
  /\ \E e \in Execs :
       /\ exec[e].pc = "wait"
       /\ txs[exec[e].tx].status # "pending"
       /\ IF txs[exec[e].tx].status = "success"
          THEN SetStatus(e, Status("Anchored on-chain", "", "", 0), "done")
          ELSE SetStatus(e, AnchorFailed("transaction execution reverted", ""), "done")
  /\ UNCHANGED <<isAnchored, events, txs, blockTime, hashHex, serverVars, clientVars>>

\* the page is closed or reloaded: its executions stop, its state starts again
Reload ==
  /\ \E c \in Clients :
       /\ \E e \in Execs : exec[e].client = c /\ exec[e].pc \in {"getSigner", "send", "wait"}
       /\ exec' = [e \in Execs |-> IF exec[e].client = c /\ exec[e].pc \in {"getSigner", "send", "wait"}
                                   THEN [exec[e] EXCEPT !.pc = "stopped"] ELSE exec[e]]
       /\ status' = [status EXCEPT ![c] = NoStatus]
       /\ hashHex' = [hashHex EXCEPT ![c] = NoHash]
  /\ UNCHANGED <<isAnchored, events, txs, blockTime, serverVars, clientVars>>

ChainNext == SendDirect \/ Mine \/ HashEffect \/ AnchorStart \/ GetSigner \/ CallAnchor \/ WaitDone \/ Reload

\* ------------------------------------------- frontend: the form and its digest
\* values of the page's state that JSON has no text for
Undefined == [t |-> "undefined", n |-> 0, s |-> <<>>]

NotANumber == [t |-> "nan", n |-> 0, s |-> <<>>]

\* JSON.stringify of a number or a string of the page: NaN is written null
ValueText(v) ==
  IF v.t = "num" THEN NumberToText(v.n)
  ELSE IF v.t = "str" THEN QuoteText(v.s)
  ELSE <<"n", "u", "l", "l">>

\* JSON.stringify that writes an undefined confidence as null
FeatureText_NullForUndefined(f) ==
  LET members == <<Key(<<"t", "y", "p", "e">>) \o ValueText(f.type)>>
        \o (IF f.confidence.t = "absent"
            THEN <<>>
            ELSE <<Key(<<"c", "o", "n", "f", "i", "d", "e", "n", "c", "e">>) \o ValueText(f.confidence)>>)
        \o (IF f.bbox.t = "arr"
            THEN <<Key(<<"b", "b", "o", "x">>) \o StringifyNumArray(f.bbox.a)>>
            ELSE <<>>)
  IN <<"{">> \o Join(members, <<",">>) \o <<"}">>

\* JSON.stringify of a feature object of the page: a key that is absent or whose value is
\* undefined is left out
FeatureText(f) ==
  LET members == <<Key(<<"t", "y", "p", "e">>) \o ValueText(f.type)>>
        \o (IF f.confidence.t \in {"absent", "undefined"}
            THEN <<>>
            ELSE <<Key(<<"c", "o", "n", "f", "i", "d", "e", "n", "c", "e">>) \o ValueText(f.confidence)>>)
        \o (IF f.bbox.t = "arr"
            THEN <<Key(<<"b", "b", "o", "x">>) \o StringifyNumArray(f.bbox.a)>>
            ELSE <<>>)
  IN <<"{">> \o Join(members, <<",">>) \o <<"}">>

FeaturesText(fs) == <<"[">> \o Join([i \in 1..Len(fs) |-> FeatureText(fs[i])], <<",">>) \o <<"]">>

\* const canonical = useMemo(() => JSON.stringify({ lat, lng, timestamp, features }), ...)
AppCanonical(f) ==
  <<"{">> \o Key(<<"l", "a", "t">>) \o ValueText(f.lat) \o <<",">>
    \o Key(<<"l", "n", "g">>) \o ValueText(f.lng) \o <<",">>
    \o Key(<<"t", "i", "m", "e", "s", "t", "a", "m", "p">>) \o ValueText(f.timestamp) \o <<",">>
    \o Key(<<"f", "e", "a", "t", "u", "r", "e", "s">>) \o FeaturesText(f.features) \o <<"}">>

\* sha256Hex of the page: crypto.subtle.digest('SHA-256', ...) written as '0x' and lower-case hex
AppSha256Hex(text) == sha256Hex(text)

\* what express.json() reads back for a number or string that JSON.stringify wrote
Sent(v) == IF v.t = "nan" THEN Null ELSE IF v.t = "undefined" THEN Absent ELSE v

\* the body the backend reads from JSON.stringify({ lat, lng, timestamp, features, hashHex })
RequestBody(f, hex) ==
  Body(Sent(f.lat), Sent(f.lng), Sent(f.timestamp), Arr(JSONParseFeatures(FeaturesText(f.features))), Str(hex))

\* the useState initial values, in tenths: 10.7, 106.6, a timestamp, pothole 0.9 and traffic_sign 0.8
InitialForm ==
  [lat |-> Num(107), lng |-> Num(1066), timestamp |-> Str(<<"a">>),
   features |-> <<Feature(Str(<<"p">>), Num(9), NoArr), Feature(Str(<<"s">>), Num(8), NoArr)>>]

\* a setter gave the form the value f: the page renders again, and when canonical changed
\* the effect starts sha256Hex(canonical)
Edited(f) ==
  /\ edits < MaxEdits
  /\ f # form
  /\ form' = f
  /\ jobs' = IF AppCanonical(f) # AppCanonical(form) THEN Append(jobs, AppSha256Hex(AppCanonical(f))) ELSE jobs
  /\ edits' = edits + 1

\* onChange of Latitude: setLat(Number(e.target.value))
SetLat ==
  /\ \E v \in {Num(0 - 5), NotANumber} : Edited([form EXCEPT !.lat = v])
  /\ UNCHANGED <<hashText, sub, observations, serverVars, chainVars>>

\* onChange of Longitude: setLng(Number(e.target.value))
SetLng ==
  /\ \E v \in {Num(0)} : Edited([form EXCEPT !.lng = v])
  /\ UNCHANGED <<hashText, sub, observations, serverVars, chainVars>>

\* onChange of Timestamp, and the Now button
SetTimestamp ==
  /\ \E v \in {Str(<<"a", "\"">>)} : Edited([form EXCEPT !.timestamp = v])
  /\ UNCHANGED <<hashText, sub, observations, serverVars, chainVars>>

\* updateFeature(i, patch): { ...f, ...patch } keeps the keys of f in their places
updateFeature ==
  /\ \E i \in 1..Len(form.features) :
       \/ \E v \in {Str(<<"r">>)} : Edited([form EXCEPT !.features[i].type = v])
       \/ \E v \in {Undefined, NotANumber, Num(11)} : Edited([form EXCEPT !.features[i].confidence = v])
  /\ UNCHANGED <<hashText, sub, observations, serverVars, chainVars>>

\* addFeature(): { type: 'road_hazard', confidence: 0.6 } at the end
addFeature ==
  /\ Edited([form EXCEPT !.features = Append(@, Feature(Str(<<"r">>), Num(6), NoArr))])
  /\ UNCHANGED <<hashText, sub, observations, serverVars, chainVars>>

\* removeFeature(i)
removeFeature ==
  /\ \E i \in 1..Len(form.features) :
       Edited([form EXCEPT !.features = SubSeq(@, 1, i - 1) \o SubSeq(@, i + 1, Len(@))])
  /\ UNCHANGED <<hashText, sub, observations, serverVars, chainVars>>

\* sha256Hex(canonical).then(setHashHex): one of the digests being computed arrives
HashResolved ==
  /\ \E k \in 1..Len(jobs) :
       /\ hashText' = jobs[k]
       /\ jobs' = SubSeq(jobs, 1, k - 1) \o SubSeq(jobs, k + 1, Len(jobs))
  /\ UNCHANGED <<form, sub, observations, edits, serverVars, chainVars>>

\* ------------------------------------------------ frontend: submitObservation
Subs == 1..MaxSubs

\* an execution of submitObservation: the fields and hashHex of the render it was clicked in,
\* the answer to its POST, the fetch that failed (if one did), the statuses it has set
NoSub == [pc |-> "none", fields |-> InitialForm, hex |-> <<>>, res |-> NoRes, fault |-> "", log |-> <<>>]

\* `Submit failed: ${e?.message || String(e)}`
SubmitFailed(msg) == Status("Submit failed", msg, "", 0)

\* what the execution shows after the answer r to its POST
AfterPost(r) ==
  IF r.status = 200 THEN Status("Saved. Observation id", ToString(r.id), "", 0)
  ELSE IF r.error.t = "html" THEN SubmitFailed("Unexpected token '<'")
  ELSE IF r.error.t = "string" THEN SubmitFailed(r.error.msg)
  ELSE SubmitFailed("[object Object]")

\* a click on 'Submit to backend': setStatus('Submitting to backend...') and the fetch is sent
SubmitStart ==
  /\ \E e \in Subs :
       /\ sub[e].pc = "none"
       /\ \A f \in Subs : f < e => sub[f].pc # "none"
       /\ sub' = [sub EXCEPT ![e] = [NoSub EXCEPT !.pc = "post", !.fields = form, !.hex = hashText,
                                                   !.log = <<Status("Submitting to backend...", "", "", 0)>>]]
       /\ status' = [status EXCEPT ![1] = Status("Submitting to backend...", "", "", 0)]
  /\ UNCHANGED <<form, jobs, hashText, observations, edits, serverVars,
                 isAnchored, events, txs, blockTime, hashHex, exec>>

\* await fetch(POST): the request fails on its way, or the backend handles it and answers
SubmitFetch ==
  \E e \in Subs :
    /\ sub[e].pc = "post"
    /\ \/ /\ sub' = [sub EXCEPT ![e].pc = "done", ![e].fault = "post",
                                ![e].log = Append(@, SubmitFailed("Failed to fetch"))]
          /\ status' = [status EXCEPT ![1] = SubmitFailed("Failed to fetch")]
          /\ UNCHANGED serverVars
       \/ LET body == RequestBody(sub[e].fields, sub[e].hex)
              v == VerifyObservation(body)
          IN /\ req' = [op |-> "post", body |-> body, limit |-> Absentq]
             /\ nreq' = nreq + 1
             /\ IF v.rejected
                THEN /\ res' = v.res
                     /\ trace' = v.trace
                     /\ store' = store
                ELSE \E id \in Ids, createdAt \in Times :
                       LET r == InsertObservation(v.data, id, createdAt, store)
                       IN /\ res' = r.res
                          /\ trace' = v.trace \o r.trace
                          /\ store' = r.store
             /\ sub' = [sub EXCEPT ![e].pc = IF res'.status = 200 THEN "refresh" ELSE "done",
                                   ![e].res = res', ![e].log = Append(@, AfterPost(res'))]
             /\ status' = [status EXCEPT ![1] = AfterPost(res')]
    /\ UNCHANGED <<form, jobs, hashText, observations, edits, isAnchored, events, txs, blockTime, hashHex, exec>>

\* await refresh(): GET ?limit=25 and setObservations; a failure is caught by submitObservation
SubmitRefresh ==
  \E e \in Subs :
    /\ sub[e].pc = "refresh"
    /\ \/ /\ sub' = [sub EXCEPT ![e].pc = "done", ![e].fault = "refresh",
                                ![e].log = Append(@, SubmitFailed("Failed to fetch"))]
          /\ status' = [status EXCEPT ![1] = SubmitFailed("Failed to fetch")]
          /\ UNCHANGED <<observations, serverVars>>
       \/ /\ res' \in GetObservations(Query(<<"2", "5">>), store)
          /\ req' = [op |-> "get", body |-> NoBody, limit |-> Query(<<"2", "5">>)]
          /\ trace' = <<"select">>
          /\ nreq' = nreq + 1
          /\ observations' = res'.observations
          /\ sub' = [sub EXCEPT ![e].pc = "done"]
          /\ UNCHANGED <<store, status>>
    /\ UNCHANGED <<form, jobs, hashText, edits, isAnchored, events, txs, blockTime, hashHex, exec>>

ClientNext ==
  \/ SetLat \/ SetLng \/ SetTimestamp \/ updateFeature \/ addFeature \/ removeFeature
  \/ HashResolved \/ SubmitStart \/ SubmitFetch \/ SubmitRefresh

\* ---------------------------------------------------------- specifications
\* const db = initDb() on a new data.sqlite, a newly deployed registry, pages just loaded
Init ==
  /\ store = <<>>
  /\ req = NoReq
  /\ res = NoRes
  /\ trace = <<>>
  /\ nreq = 0
  /\ isAnchored = [d \in Digests |-> FALSE]
  /\ events = <<>>
  /\ txs = <<>>
  /\ blockTime = 0
  /\ status = [c \in Clients |-> NoStatus]
  /\ hashHex = [c \in Clients |-> NoHash]
  /\ exec = [e \in Execs |-> NoExec]
  /\ form = InitialForm
  /\ jobs = <<AppSha256Hex(AppCanonical(InitialForm))>>
  /\ hashText = <<>>
  /\ sub = [e \in Subs |-> NoSub]
  /\ observations = <<>>
  /\ edits = 0

\* the same, with const db = initDb() on a data.sqlite that holds about MaxLimit observations
FilledInit ==
  /\ store \in {Preload(MaxLimit - 1), Preload(MaxLimit), Preload(MaxLimit + 1)}
  /\ req = NoReq
  /\ res = NoRes
  /\ trace = <<>>
  /\ nreq = 0
  /\ isAnchored = [d \in Digests |-> FALSE]
  /\ events = <<>>
  /\ txs = <<>>
  /\ blockTime = 0
  /\ status = [c \in Clients |-> NoStatus]
  /\ hashHex = [c \in Clients |-> NoHash]
  /\ exec = [e \in Execs |-> NoExec]
  /\ form = InitialForm
  /\ jobs = <<AppSha256Hex(AppCanonical(InitialForm))>>
  /\ hashText = <<>>
  /\ sub = [e \in Subs |-> NoSub]
  /\ observations = <<>>
  /\ edits = 0

\* the same, with const db = initDb() on a data.sqlite that holds the three observations of Seeded
SeededInit ==
  /\ store = Seeded
  /\ req = NoReq
  /\ res = NoRes
  /\ trace = <<>>
  /\ nreq = 0
  /\ isAnchored = [d \in Digests |-> FALSE]
  /\ events = <<>>
  /\ txs = <<>>
  /\ blockTime = 0
  /\ status = [c \in Clients |-> NoStatus]
  /\ hashHex = [c \in Clients |-> NoHash]
  /\ exec = [e \in Execs |-> NoExec]
  /\ form = InitialForm
  /\ jobs = <<AppSha256Hex(AppCanonical(InitialForm))>>
  /\ hashText = <<>>
  /\ sub = [e \in Subs |-> NoSub]
  /\ observations = <<>>
  /\ edits = 0

\* the backend and its callers
SpecServer == Init /\ [][ServerNext]_vars

\* the backend started on a filled database
SpecFilled == FilledInit /\ [][ServerNext]_vars

\* the backend started on a database of three observations
SpecSeeded == SeededInit /\ [][ServerNext]_vars

\* the registry, its ledger and the pages that anchor
SpecChain == Init /\ [][ChainNext]_vars

\* the page of the first client and the backend it submits to
SpecClient == Init /\ [][ClientNext]_vars

\* ================================================================== claims
Last(seq) == seq[Len(seq)]

\* transaction i is executed by this step
Mined(i) == txs[i].status = "pending" /\ txs'[i].status # "pending"

EventsFor(d) == {k \in 1..Len(events) : events[k].hash = d}

SuccessesFor(d) == {i \in 1..Len(txs) : txs[i].hash = d /\ txs[i].status = "success"}

\* this step is one POST, or one GET, answered by the backend
Posted == nreq' = nreq + 1 /\ req'.op = "post"

\* the digest the server recomputes from the fields of a shape-valid body
Recomputed(body) ==
  LET d == ObservationSchema(body).data IN sha256Hex(Canonical(d.lat, d.lng, d.timestamp, d.features))

HashMismatch(body) == toLowerCase(Recomputed(body)) # toLowerCase(body.hashHex.s)

\* ------------------------------------------------------------------- C1
C1_State ==
  \A d \in Digests \ {0} :
    /\ Cardinality(SuccessesFor(d)) <= 1
    /\ Cardinality(EventsFor(d)) = Cardinality(SuccessesFor(d))
    /\ isAnchored[d] <=> SuccessesFor(d) # {}

C1_Step ==
  \A i \in 1..Len(txs) :
    (Mined(i) /\ txs[i].hash # 0) =>
      IF isAnchored[txs[i].hash]
      THEN /\ txs'[i].status = "reverted"
           /\ txs'[i].reason = "ALREADY_ANCHORED"
           /\ isAnchored' = isAnchored
           /\ events' = events
      ELSE /\ txs'[i].status = "success"
           /\ isAnchored' = [isAnchored EXCEPT ![txs[i].hash] = TRUE]
           /\ Len(events') = Len(events) + 1
           /\ SubSeq(events', 1, Len(events)) = events
           /\ Last(events').hash = txs[i].hash

\* C1: at most one anchor call per non-zero digest ever succeeds: the first call for a
\* digest succeeds, sets its flag and emits exactly one Anchored event; every later call
\* for it fails with ALREADY_ANCHORED, emits no event and leaves the registry unchanged.
C1_AnchorOnce == []C1_State /\ [][C1_Step]_vars

C1_Witness ==
  \E i, j \in 1..Len(txs) :
    /\ txs[i].hash = txs[j].hash
    /\ txs[i].status = "success"
    /\ txs[j].status = "reverted" /\ txs[j].reason = "ALREADY_ANCHORED"
    /\ isAnchored[txs[i].hash]
    /\ Cardinality(EventsFor(txs[i].hash)) = 1

\* ------------------------------------------------------------------- C2
C2_Step ==
  (Posted /\ ObservationSchema(req'.body).success /\ HashMismatch(req'.body)) =>
    /\ res' = MismatchRes
    /\ store' = store

C2_Listed == res.op = "get" /\ res.ok => \A k \in 1..Len(res.observations) :
                                          \E i \in 1..Len(store) : store[i].id = res.observations[k].id

\* C2: a POST whose shape-valid body carries a hashHex that differs, ignoring case, from the
\* digest the server recomputes is rejected with the integrity error and leaves the store
\* unchanged, so that no GET lists a record of it.
C2_MismatchRejected == []C2_Listed /\ [][C2_Step]_vars

C2_Witness ==
  /\ req.op = "post"
  /\ ObservationSchema(req.body).success
  /\ HashMismatch(req.body)
  /\ res = MismatchRes
  /\ Len(store) = 1

\* ------------------------------------------------------------------- C3
C3_State == \A d \in Digests : isAnchored[d] <=> SuccessesFor(d) # {}

C3_Step == \A d \in Digests : isAnchored[d] => isAnchored'[d]

\* C3: isAnchored(digest) is false in every state before the first successful anchor(digest)
\* and true in every state after it; no operation of the registry and no action of a page
\* (another anchor call, a failed call, a page that stops waiting) sets a flag back to false.
C3_AnchoredForever == []C3_State /\ [][C3_Step]_vars

C3_Witness ==
  \E e \in Execs :
    /\ exec[e].pc = "stopped"
    /\ exec[e].tx # 0
    /\ txs[exec[e].tx].status = "success"
    /\ isAnchored[exec[e].arg]
    /\ \E j \in 1..Len(txs) : txs[j].hash = exec[e].arg /\ txs[j].status = "reverted"

\* ------------------------------------------------------------------- C4
C4_State ==
  /\ ~isAnchored[0]
  /\ EventsFor(0) = {}
  /\ \A i \in 1..Len(txs) :
       (txs[i].hash = 0 /\ txs[i].status # "pending") =>
         (txs[i].status = "reverted" /\ txs[i].reason = "EMPTY_HASH" /\ txs[i].reason # "ALREADY_ANCHORED")

C4_Step == \A i \in 1..Len(txs) : (Mined(i) /\ txs[i].hash = 0) => (isAnchored' = isAnchored /\ events' = events)

\* C4: anchor of the all-zero digest fails with EMPTY_HASH in every registry state, whatever
\* was anchored before; it changes no flag (isAnchored(0) stays false) and emits no event,
\* and the failure is not ALREADY_ANCHORED.
C4_EmptyHash == []C4_State /\ [][C4_Step]_vars

C4_Witness ==
  /\ \E d \in Digests \ {0} : isAnchored[d]
  /\ \E i \in 1..Len(txs) : txs[i].hash = 0 /\ txs[i].status = "reverted" /\ txs[i].reason = "EMPTY_HASH"

\* ------------------------------------------------------------------- C5
\* C5: for every limit a caller can send and every store content, GET /api/observations
\* never returns more than the cap of MaxLimit observations.
C5_Capped == res.op = "get" => Len(res.observations) <= MaxLimit

\* ------------------------------------------------------------------- C6
C6_Row(r) ==
  LET features == JSONParseFeatures(r.features_json)
  IN /\ HashHexPattern(r.hash_hex)
     /\ \A k \in 1..Len(features) : FeatureSchema(features[k])
     /\ toLowerCase(r.hash_hex) = toLowerCase(sha256Hex(Canonical(r.lat, r.lng, r.timestamp, features)))

C6_State == \A i \in 1..Len(store) : C6_Row(store[i])

C6_Step ==
  store' # store =>
    /\ Posted
    /\ ObservationSchema(req'.body).success
    /\ ~HashMismatch(req'.body)
    /\ Len(store') = Len(store) + 1
    /\ LET d == ObservationSchema(req'.body).data
           r == Last(store')
       IN /\ r.lat = d.lat /\ r.lng = d.lng /\ r.timestamp = d.timestamp
          /\ JSONParseFeatures(r.features_json) = d.features
          /\ r.hash_hex = d.hashHex

\* C6: every stored observation was created by a POST that passed the shape validation and
\* the hash check: its stored hashHex equals, ignoring case, the digest of the canonical
\* form of its own stored lat, lng, timestamp and features; nothing else writes the store.
C6_StoredVerified == []C6_State /\ [][C6_Step]_vars

C6_Witness ==
  /\ Len(store) = 2
  /\ store[1].lat # store[1].lng
  /\ store[1].hash_hex # toLowerCase(store[1].hash_hex)
  /\ store[2].features_json = <<"[", "]">>

\* ------------------------------------------------------------------- C7
MissingRequired(body) ==
  \/ body.lat.t = "absent" \/ body.lng.t = "absent" \/ body.timestamp.t = "absent" \/ body.hashHex.t = "absent"
  \/ body.features.t = "arr" /\ \E i \in 1..Len(body.features.a) : body.features.a[i].type.t = "absent"

ConfidenceOutside(body) ==
  body.features.t = "arr" /\ \E i \in 1..Len(body.features.a) :
    body.features.a[i].confidence.t = "num"
    /\ (body.features.a[i].confidence.n < 0 \/ body.features.a[i].confidence.n > 10)

MalformedDigest(body) ==
  /\ body.hashHex.t = "str"
  /\ ~(/\ Len(body.hashHex.s) = 66
       /\ SubSeq(body.hashHex.s, 1, 2) = <<"0", "x">>
       /\ \A i \in 3..66 : body.hashHex.s[i] \in HexChars)

C7_Step ==
  (Posted /\ (MissingRequired(req'.body) \/ ConfidenceOutside(req'.body) \/ MalformedDigest(req'.body))) =>
    /\ res'.status = 400 /\ ~res'.ok
    /\ res'.error.t = "object" /\ res'.error.fields # {}
    /\ res'.error # MismatchRes.error
    /\ trace' = <<"safeParse">>
    /\ store' = store

\* C7: a POST whose body is shape-invalid (a required field missing, a confidence outside
\* [0,1], a hashHex that is not 0x and 64 hex digits) is rejected with the validation error
\* before anything is canonicalized or hashed; that error differs from the integrity error,
\* and the store is unchanged.
C7_ValidationFirst == [][C7_Step]_vars

C7_Witness ==
  /\ req.op = "post"
  /\ ConfidenceOutside(req.body)
  /\ res.status = 400 /\ res.error.t = "object"
  /\ Len(store) = 1

\* ------------------------------------------------------------------- C8
Succeeded(e) == exec[e].log # <<>> /\ Last(exec[e].log).text = "Anchored on-chain"

\* C8: anchorOnChain reports 'Anchored on-chain' only once its own transaction is confirmed:
\* the digest is then anchored on the ledger by the transaction this execution sent, and the
\* status it set just before was 'Tx sent ... Waiting for confirmation'.
C8_SuccessAfterConfirm ==
  /\ \A e \in Execs :
       Succeeded(e) =>
         /\ exec[e].tx # 0
         /\ txs[exec[e].tx].status = "success"
         /\ txs[exec[e].tx].hash = exec[e].arg
         /\ txs[exec[e].tx].from = exec[e].client
         /\ isAnchored[exec[e].arg]
         /\ Len(exec[e].log) >= 2
         /\ exec[e].log[Len(exec[e].log) - 1] = Status("Tx sent. Waiting for confirmation...", "", "", exec[e].tx)
  /\ \A c \in Clients :
       status[c].text = "Anchored on-chain" => \E e \in Execs : exec[e].client = c /\ Succeeded(e)

C8_Witness == \E e \in Execs : Succeeded(e) /\ \E j \in 1..Len(txs) : txs[j].status = "reverted"

\* ------------------------------------------------------------------- C9
StoreIds == {store[i].id : i \in 1..Len(store)}

C9_Step ==
  /\ Len(store') >= Len(store)
  /\ \A i \in 1..Len(store) : store'[i] = store[i]
  /\ (Posted /\ res'.ok) =>
       /\ Len(store') = Len(store) + 1
       /\ Last(store').id \notin StoreIds
       /\ Last(store').id = res'.id
  /\ ~(Posted /\ res'.ok) => store' = store

\* C9: the store is append-only: an accepted POST adds exactly one record whose id differs
\* from every stored id, and no operation changes or removes a stored record; rejected
\* POSTs and GETs leave the records unchanged.
C9_AppendOnly == [](Cardinality(StoreIds) = Len(store)) /\ [][C9_Step]_vars

C9_Witness == Len(store) = 2 /\ req.op = "post" /\ res.ok /\ res.id = store[2].id

\* ------------------------------------------------------------------ C10
\* the registry has refused the action of execution e: in the simulation of the call,
\* or when its transaction was executed
Refused(e) ==
  \/ exec[e].tx # 0 /\ txs[exec[e].tx].status = "reverted"
  \/ exec[e].log # <<>> /\ Last(exec[e].log).msg = "execution reverted"

RefusalReason(e) ==
  IF exec[e].tx # 0 THEN txs[exec[e].tx].reason ELSE IF exec[e].arg = 0 THEN "EMPTY_HASH" ELSE "ALREADY_ANCHORED"

\* C10: when the registry rejects an anchor action, anchorOnChain ends in a failure outcome
\* that carries the registry's reason and differs from the sent and the confirmed outcomes,
\* and it sends no further transaction.
C10_RejectionReported ==
  \A e \in Execs :
    (exec[e].pc = "done" /\ Refused(e)) =>
      /\ Last(exec[e].log).text = "Anchor failed"
      /\ Last(exec[e].log).reason = RefusalReason(e)
      /\ Last(exec[e].log).text \notin {"Tx sent. Waiting for confirmation...", "Anchored on-chain"}
      /\ Cardinality({i \in 1..Len(txs) : txs[i].by = e}) <= 1

\* ---- C11
\* the rows of the store that the answer res leaves out
Omitted == {i \in 1..Len(store) : \A k \in 1..Len(res.observations) : res.observations[k].id # store[i].id}

\* C11: a successful GET answers its records newest first (of any two, the one with the later
\* createdAt comes first); no record it returns is older than a record of the store it omits;
\* and under a limit of zero or more it returns as many records as the limit and the store allow
C11_NewestFirst ==
  res.op = "get" /\ res.ok =>
    LET out == res.observations
        limit == EffectiveLimit(req.limit).n
    IN /\ \A j, k \in 1..Len(out) : j < k => out[j].createdAt >= out[k].createdAt
       /\ \A i \in Omitted : \A k \in 1..Len(out) : store[i].created_at <= out[k].createdAt
       /\ limit >= 0 => Len(out) = (IF limit < Len(store) THEN limit ELSE Len(store))

\* a GET under limit=2 answered two records of different instants and left out a record
\* created in the same instant as the second
C11_Witness ==
  /\ res.op = "get" /\ res.ok
  /\ Len(res.observations) = 2
  /\ res.observations[1].createdAt > res.observations[2].createdAt
  /\ \E i \in Omitted : store[i].created_at = res.observations[2].createdAt

\* ---- C12
\* the part of an outcome shown to the user that is not free text: the literal text of the
\* status, without the message interpolated into it
Kind(st) == st.text

\* execution e of submitObservation ended in a failure outcome
SubmitFailure(e) == sub[e].pc = "done" /\ Last(sub[e].log).text = "Submit failed"

\* the category of that failure
SubmitCategory(e) ==
  IF sub[e].fault # "" THEN "transport"
  ELSE IF sub[e].res.error.t = "object" THEN "validation"
  ELSE IF sub[e].res.error.t = "string" THEN "integrity"
  ELSE "server"

\* execution e of anchorOnChain ended in a failure outcome
AnchorFailure(e) == exec[e].pc = "done" /\ Last(exec[e].log).text = "Anchor failed"

AnchorCategory(e) == IF Refused(e) THEN RefusalReason(e) ELSE "transient"

\* the outcome the frontend shows for a failure of each category
FailureOutcomes ==
  {[category |-> "validation", status |-> AfterPost(ValidationRes({"hashHex"}))],
   [category |-> "integrity", status |-> AfterPost(MismatchRes)],
   [category |-> "transport", status |-> SubmitFailed("Failed to fetch")],
   [category |-> "ALREADY_ANCHORED", status |-> AnchorFailed("execution reverted", "ALREADY_ANCHORED")],
   [category |-> "EMPTY_HASH", status |-> AnchorFailed("execution reverted", "EMPTY_HASH")],
   [category |-> "transient", status |-> AnchorFailed("user rejected action", "")]}

\* C12: the failure outcome an execution of submitObservation or anchorOnChain has shown carries
\* a kind that tells its category: the outcome of a failure of any other category has another kind
C12_KindTellsCategory ==
  /\ \A e \in Subs : SubmitFailure(e) =>
       \A o \in FailureOutcomes : o.category # SubmitCategory(e) => Kind(o.status) # Kind(Last(sub[e].log))
  /\ \A e \in Execs : AnchorFailure(e) =>
       \A o \in FailureOutcomes : o.category # AnchorCategory(e) => Kind(o.status) # Kind(Last(exec[e].log))

\* ---- C13
\* this step answers a GET
Got == nreq' = nreq + 1 /\ req'.op = "get"

\* the record a GET answers for the verified fields d stored under id at createdAt
Listed(d, id, createdAt) ==
  [id |-> id, createdAt |-> createdAt, lat |-> d.lat, lng |-> d.lng, timestamp |-> d.timestamp,
   features |-> d.features, hashHex |-> d.hashHex]

\* the verified fields of the accepted bodies
VerifiedData == {Verified[b].data : b \in {c \in Bodies : ~Verified[c].rejected}}

\* a POST that stores a row answers ok: true with the id, the createdAt and the hashHex of the row,
\* the id is new, and the row reads back as the verified fields
C13_Post ==
  (Posted /\ Len(store') > Len(store)) =>
    LET d == ObservationSchema(req'.body).data
    IN /\ res'.ok /\ res'.status = 200
       /\ res'.id \notin StoreIds
       /\ res'.hashHex = d.hashHex
       /\ OutRow(Last(store')) = Listed(d, res'.id, res'.createdAt)

\* a GET whose limit covers the store answers, for every stored row, a record with the id and
\* createdAt of the row and exactly the fields of the verified submission the row was stored from
C13_Get ==
  (Got /\ res'.ok /\ Len(res'.observations) = Len(store)) =>
    \A i \in 1..Len(store) :
      \E k \in 1..Len(res'.observations), d \in VerifiedData :
        /\ store[i].features_json = StringifyFeatures(d.features)
        /\ res'.observations[k] = Listed(d, store[i].id, store[i].created_at)

\* C13: every accepted POST answers ok: true with a new id, createdAt and hashHex, and is
\* readable afterwards: a later GET whose limit covers it returns a record with that id and
\* createdAt whose lat, lng, timestamp, features and hashHex are exactly the verified values
C13_ReadableAfterwards == [][C13_Post /\ C13_Get]_vars

\* a GET has returned a stored observation whose features carry a bbox with a fraction
C13_Witness ==
  /\ req.op = "get" /\ res.ok
  /\ \E k \in 1..Len(res.observations) :
       /\ res.observations[k].id \in StoreIds
       /\ res.observations[k].features = Obs2.features
       /\ res.observations[k].timestamp = Obs2.timestamp

\* ---- C14
\* the form of the page that holds the verified fields d with the features gs
FormOf(d, gs) == [lat |-> Num(d.lat), lng |-> Num(d.lng), timestamp |-> Str(d.timestamp), features |-> gs]

C14_Step ==
  (Posted /\ ObservationSchema(req'.body).success) =>
    \A d \in {ObservationSchema(req'.body).data} :
      \A p \in PermsOf(1..Len(d.features)) :
        \A gs \in {[i \in 1..Len(d.features) |-> d.features[p[i]]]} :
          gs # d.features =>
            \A cg \in {Canonical(d.lat, d.lng, d.timestamp, gs)},
               cf \in {Canonical(d.lat, d.lng, d.timestamp, d.features)},
               ag \in {AppCanonical(FormOf(d, gs))},
               af \in {AppCanonical(FormOf(d, d.features))} :
              /\ cg # cf
              /\ ag # af
              /\ sha256Hex(cg) # sha256Hex(cf)
              /\ AppSha256Hex(ag) # AppSha256Hex(af)
              /\ toLowerCase(d.hashHex) = toLowerCase(AppSha256Hex(ag)) => res' = MismatchRes

\* C14: the canonical form keeps the order of the features: the same features in another order
\* (a sequence that is not the same sequence) give another canonical form and another digest, on
\* the page and on the backend, and a POST that carries the digest of one order with the
\* features in the other order is refused as a hash mismatch
C14_OrderSensitive == [][C14_Step]_vars

\* the backend has refused, as a hash mismatch, the two features of Obs2 sent in the other
\* order with the digest of their first order
C14_Witness ==
  /\ req.op = "post" /\ res = MismatchRes
  /\ req.body.features = Arr(<<Obs2.features[2], Obs2.features[1]>>)
  /\ req.body.hashHex = Str(ClientDigest(Obs2))

\* ---- C15
UndefinedArr == [t |-> "undefined", a |-> <<>>]

\* the features fs with every absent optional field set to undefined
WithUndefined(fs) ==
  [i \in 1..Len(fs) |-> [fs[i] EXCEPT !.confidence = IF @.t = "absent" THEN Undefined ELSE @,
                                      !.bbox = IF @.t = "absent" THEN UndefinedArr ELSE @]]

\* the features fs with every undefined optional field absent
WithAbsent(fs) ==
  [i \in 1..Len(fs) |-> [fs[i] EXCEPT !.confidence = IF @.t = "undefined" THEN Absent ELSE @,
                                      !.bbox = IF @.t = "undefined" THEN NoArr ELSE @]]

\* C15: the features of the page with their optional fields (confidence, bbox) absent and the same
\* features with these fields explicitly undefined have one canonical form and one digest, on the
\* page and on the backend, and the text never writes such a field as null: the backend reads it
\* as absent
C15_AbsentIsUndefined ==
  \A u \in {[form EXCEPT !.features = WithUndefined(@)]}, a \in {[form EXCEPT !.features = WithAbsent(@)]} :
    \A cu \in {AppCanonical(u)}, ca \in {AppCanonical(a)}, cf \in {AppCanonical(form)} :
      /\ cu = ca /\ ca = cf
      /\ Cardinality({AppSha256Hex(t) : t \in {cu, ca, cf}}) = 1
      /\ \A read \in {JSONParseFeatures(FeaturesText(u.features))} :
           /\ \A i \in 1..Len(read) :
                /\ a.features[i].confidence.t = "absent" => read[i].confidence = Absent
                /\ a.features[i].bbox.t = "absent" => read[i].bbox = NoArr
           /\ \A su \in {StringifyFeatures(WithUndefined(read))}, sa \in {StringifyFeatures(read)} :
                /\ su = sa
                /\ \A d \in {ObservationSchema(RequestBody(form, hashText)).data} :
                     Cardinality({sha256Hex(CanonicalText(d.lat, d.lng, d.timestamp, t)) : t \in {su, sa}}) = 1

\* the confidence of a feature has been cleared on the page and the digest of that form has arrived
C15_Witness ==
  /\ \E i \in 1..Len(form.features) : form.features[i].confidence = Undefined
  /\ jobs = <<>>
  /\ hashText = AppSha256Hex(AppCanonical(form))

\* ---- C16
C16_State ==
  /\ \A d \in Digests :
       /\ isAnchored[d] <=> Cardinality(EventsFor(d)) = 1
       /\ ~isAnchored[d] => EventsFor(d) = {}
  /\ EventsFor(0) = {}
  /\ \A k \in 1..Len(events) :
       /\ events[k].timestamp <= blockTime
       /\ \E i \in SuccessesFor(events[k].hash) : txs[i].from = events[k].submitter

C16_Step ==
  /\ \A i \in 1..Len(txs) :
       (Mined(i) /\ txs'[i].status = "success") =>
         /\ ~isAnchored[txs[i].hash] /\ isAnchored'[txs[i].hash]
         /\ events' = Append(events, [hash |-> txs[i].hash, submitter |-> txs[i].from, timestamp |-> blockTime'])
  /\ events' # events => \E i \in 1..Len(txs) : Mined(i) /\ txs'[i].status = "success"

\* C16: the event log and the flags agree: isAnchored(d) is true exactly when one Anchored event
\* for d is in the log, emitted by the successful anchor call for d with the caller of that call
\* and the ledger timestamp of its block; no event is in the log for a digest whose flag is false
\* nor for the zero digest
C16_EventsMatchFlags == []C16_State /\ [][C16_Step]_vars

\* a digest was anchored in a block of a later timestamp, an anchor of the zero digest and a
\* second anchor of the digest would each have left the log alone: here one of them reverted
C16_Witness ==
  /\ \E d \in Digests \ {0} :
       /\ isAnchored[d]
       /\ \E k \in EventsFor(d) : events[k].timestamp > 0
  /\ \E i \in 1..Len(txs) : txs[i].status = "reverted"

\* ---- C17
\* the digest of the page for the current form equals the digest the backend recomputes from
\* the body the page would send, whenever that body is shape-valid
C17_State ==
  \A dg \in {AppSha256Hex(AppCanonical(form))} :
    \A body \in {RequestBody(form, dg)} :
      ObservationSchema(body).success =>
        \A expected \in {Recomputed(body)} :
          /\ expected = dg
          /\ toLowerCase(expected) = toLowerCase(body.hashHex.s)

\* a submission that was answered 'Hash mismatch' did not carry the digest of the fields it carried
C17_Submitted ==
  \A e \in Subs :
    sub[e].res = MismatchRes =>
      \A dg \in {AppSha256Hex(AppCanonical(sub[e].fields))} : sub[e].hex # dg

\* C17: the page and the backend canonicalize alike: for every shape-valid observation the page
\* can build (lat, lng, timestamp and the features edited by addFeature, updateFeature and
\* removeFeature) the digest of the page equals the digest the backend recomputes, so a
\* submission that carries the page's digest of exactly the submitted fields is never refused
\* as a hash mismatch
C17_DigestsAgree == C17_State /\ C17_Submitted

\* a form that was edited has been submitted with its own digest and the backend has stored it
C17_Witness ==
  \E e \in Subs :
    /\ sub[e].res.status = 200
    /\ sub[e].fields # InitialForm
    /\ sub[e].hex = AppSha256Hex(AppCanonical(sub[e].fields))

\* ---- C18
\* C18: once every hash computation that a change of the fields started has completed, in
\* whatever order, the hashHex of the page (the one it shows, submits and anchors) is the digest
\* of the canonical form of the current fields, not of an earlier version of them
C18_DigestOfCurrentFields ==
  jobs = <<>> => \A dg \in {AppSha256Hex(AppCanonical(form))} : hashText = dg

====
